---- MODULE Spec2Model ----
(***************************************************************************)
(* Model of the Wrike dashboard scripts acesso.py (API mode) and           *)
(* dashaboard.py (spreadsheet mode): percent normalisation, progress       *)
(* classification, the responsibility filter, the summary metrics, the     *)
(* paginated fetch of get_wrike_tasks, the script run with its caches and  *)
(* the chart per client.                                                   *)
(*                                                                         *)
(* Text is a sequence of one-character strings.  A float is an integer     *)
(* number of 1/Scale units, so every decimal the bounded inputs can spell  *)
(* is represented exactly.  A dict is a function whose DOMAIN is the set   *)
(* of keys present; None is the record [k |-> "none"].                     *)
(***************************************************************************)
EXTENDS Integers, Sequences, FiniteSets, TLC

VARIABLES
    task,          \* acesso.py: the task record handed to a helper
    user_id,       \* acesso.py: the current user's id
    percentual,    \* result of extrair_percentual (either script)
    responsavel,   \* result of is_user_responsible
    row,           \* dashaboard.py: one row of df_dashboard (Status, Percentual)
    classificacao, \* result of classificar_status (either script)
    percentuais,   \* the Percentual column of the displayed DataFrame
    metrics,       \* the values of the metrics block
    pc,            \* position of the script under study
    secrets,       \* st.secrets: the configuration read by acesso.py
    token,         \* acesso.py: the token read by the running script
    cache_user,    \* st.cache_data of get_user_id: token -> returned value
    cache_tasks,   \* st.cache_data of get_wrike_tasks: token -> returned value
    first_call,    \* what the first call of each cached function did, per token
    calls,         \* the calls of cached functions made by the running script
    screen,        \* the elements the running script has rendered
    tasks_data,    \* the value returned by get_wrike_tasks
    all_tasks,     \* get_wrike_tasks: the records collected so far
    next_page_token,  \* get_wrike_tasks: the cursor of the next request
    requests,      \* get_wrike_tasks: the requests sent by the running call
    df_para_dashboard,  \* acesso.py: the displayed rows (accountId, Percentual)
    cliente_metrics,    \* acesso.py: the per-client aggregation
    df_tasks,      \* acesso.py: the DataFrame of the fetched tasks
    df_filtrado    \* acesso.py: the working set after the responsibility filter

\* the variables of the fetch, of the script run and of the client chart
netVars == <<secrets, token, cache_user, cache_tasks, first_call, calls, screen,
             tasks_data, all_tasks, next_page_token, requests,
             df_para_dashboard, cliente_metrics, df_tasks, df_filtrado>>

vars == <<task, user_id, percentual, responsavel, row, classificacao,
          percentuais, metrics, pc, secrets, token, cache_user, cache_tasks,
          first_call, calls, screen, tasks_data, all_tasks, next_page_token,
          requests, df_para_dashboard, cliente_metrics, df_tasks, df_filtrado>>

----------------------------------------------------------------------------
(* Bounds of the exploration *)

\* longest text typed into a custom-field value or a spreadsheet cell
MaxLen == 4

\* most entries of a task's customFields list
MaxFields == 2

\* most ids in an authorIds / responsibleIds list
MaxIds == 2

\* most rows of the displayed DataFrame
MaxTasks == 3

RECURSIVE Pow10(_)
Pow10(k) == IF k = 0 THEN 1 ELSE 10 * Pow10(k - 1)

\* units per 1.0: a text of MaxLen characters has at most MaxLen-2 decimals
Scale == Pow10(MaxLen - 1)

\* the float k, for an integer k
Flt(k) == k * Scale

\* "no value yet"
Nil == [k |-> "nil"]

\* Python's None
None == [k |-> "none"]

\* a Python str
Str(s) == [k |-> "str", s |-> s]

\* the fetch, the script run and the client chart, unused
IdleNet ==
    /\ secrets = Nil /\ token = Nil /\ cache_user = Nil /\ cache_tasks = Nil
    /\ first_call = Nil /\ calls = Nil /\ screen = Nil /\ tasks_data = Nil
    /\ all_tasks = Nil /\ next_page_token = Nil /\ requests = Nil
    /\ df_para_dashboard = Nil /\ cliente_metrics = Nil
    /\ df_tasks = Nil /\ df_filtrado = Nil

\* a Python float
Num(v) == [k |-> "num", v |-> v]

----------------------------------------------------------------------------
(* Text: the characters inputs are typed from, and the str methods used *)

Digits == {"0", "1", "2", "3", "4", "5", "6", "7", "8", "9"}

\* characters of typed values: digits, both decimal separators, the percent
\* sign, a sign and so a character that is none of these
Alphabet == {"0", "1", "5", "8", ".", ",", "%", "-"}

DigitVal(c) ==
    CASE c = "0" -> 0 [] c = "1" -> 1 [] c = "2" -> 2 [] c = "3" -> 3
      [] c = "4" -> 4 [] c = "5" -> 5 [] c = "6" -> 6 [] c = "7" -> 7
      [] c = "8" -> 8 [] c = "9" -> 9

UpperCase == <<"A","B","C","D","E","F","G","H","I","J","K","L","M",
               "N","O","P","Q","R","S","T","U","V","W","X","Y","Z">>

LowerCase == <<"a","b","c","d","e","f","g","h","i","j","k","l","m",
               "n","o","p","q","r","s","t","u","v","w","x","y","z">>

\* str.lower() on one character
LowerChar(c) ==
    IF \E i \in 1..Len(UpperCase) : UpperCase[i] = c
    THEN LowerCase[CHOOSE i \in 1..Len(UpperCase) : UpperCase[i] = c]
    ELSE c

\* str.lower()
Lower(s) == [i \in 1..Len(s) |-> LowerChar(s[i])]

\* str.strip(): drops leading and trailing blanks
RECURSIVE LStrip(_)
LStrip(s) == IF s # <<>> /\ Head(s) = " " THEN LStrip(Tail(s)) ELSE s

RECURSIVE RStrip(_)
RStrip(s) ==
    IF s # <<>> /\ s[Len(s)] = " " THEN RStrip(SubSeq(s, 1, Len(s) - 1)) ELSE s

Strip(s) == RStrip(LStrip(s))

\* str.replace(c, r) for a one-character c and a text r
RECURSIVE Replace(_, _, _)
Replace(s, c, r) ==
    IF s = <<>> THEN <<>>
    ELSE (IF Head(s) = c THEN r ELSE <<Head(s)>>) \o Replace(Tail(s), c, r)

\* `sub in s` for two texts
Contains(s, sub) ==
    \E i \in 0..(Len(s) - Len(sub)) : SubSeq(s, i + 1, i + Len(sub)) = sub

----------------------------------------------------------------------------
(* re.search(r'(\d+(?:\.\d+)?)', s) and float() of its group *)

\* first position >= i holding a digit, 0 if none
RECURSIVE FirstDigit(_, _)
FirstDigit(s, i) ==
    IF i > Len(s) THEN 0
    ELSE IF s[i] \in Digits THEN i ELSE FirstDigit(s, i + 1)

\* last position of the run of digits that starts at i (\d+ is greedy)
RECURSIVE DigitsEnd(_, _)
DigitsEnd(s, i) ==
    IF i + 1 <= Len(s) /\ s[i + 1] \in Digits THEN DigitsEnd(s, i + 1) ELSE i

\* the integer a text of digits spells
RECURSIVE IntOf(_)
IntOf(ds) ==
    IF ds = <<>> THEN 0
    ELSE 10 * IntOf(SubSeq(ds, 1, Len(ds) - 1)) + DigitVal(ds[Len(ds)])

\* float("<ip>.<fp>") for two texts of digits
FloatOf(ip, fp) == IntOf(ip) * Scale + (IntOf(fp) * Scale) \div Pow10(Len(fp))

\* the match of the pattern in s: [found, ip, fp], the leftmost match, its
\* integer part and its optional fractional part
ReSearch(s) ==
    LET i == FirstDigit(s, 1) IN
    IF i = 0 THEN [found |-> FALSE, ip |-> <<>>, fp |-> <<>>]
    ELSE LET j == DigitsEnd(s, i)
             frac == j + 2 <= Len(s) /\ s[j + 1] = "." /\ s[j + 2] \in Digits
         IN [found |-> TRUE,
             ip |-> SubSeq(s, i, j),
             fp |-> IF frac THEN SubSeq(s, j + 2, DigitsEnd(s, j + 2)) ELSE <<>>]

----------------------------------------------------------------------------
(* acesso.py: extrair_percentual *)

Min(a, b) == IF a <= b THEN a ELSE b

\* the list possible_titles
possible_titles ==
    << <<"%"," ","A","n","d","a","m","e","n","t","o">>,
       <<"%","A","n","d","a","m","e","n","t","o">>,
       <<"P","e","r","c","e","n","t","u","a","l">>,
       <<"P","r","o","g","r","e","s","s">>,
       <<"P","r","o","g","r","e","s","s","o">>,
       <<"C","o","m","p","l","e","t","i","o","n">>,
       <<"C","o","m","p","l","e","t","e">> >>

\* dict.get(key, default)
Get(d, key, default) == IF key \in DOMAIN d THEN d[key] ELSE default

\* bool(x) of a None or a str
Truthy(x) == x # None /\ x.s # <<>>

\* field.get('title', '').strip() matches one of possible_titles
TitleMatches(field) ==
    LET field_title == Strip(Get(field, "title", Str(<<>>)).s) IN
    \E t \in 1..Len(possible_titles) :
        Contains(Lower(field_title), Lower(possible_titles[t]))

\* ScaleApi without the final min(percentual, 100)
ScaleApiNoClamp(n) == IF n <= Flt(1) THEN n * 100 ELSE n

\* ScaleApi with `percentual < 1` for `percentual <= 1`
ScaleApiStrict(n) == Min(IF n < Flt(1) THEN n * 100 ELSE n, Flt(100))

\* the scale rule and the clamp applied to the float of the match
ScaleApi(n) == Min(IF n <= Flt(1) THEN n * 100 ELSE n, Flt(100))

\* FieldPercent returning 0.0 for a value without a number, so that the
\* status fallback runs only when no field matches
FieldPercentZero(field) ==
    LET value == Get(field, "value", None) IN
    IF ~Truthy(value) THEN Num(0)
    ELSE LET valor_str == Strip(Replace(Replace(value.s, "%", <<>>), ",", <<".">>))
             match == ReSearch(valor_str)
         IN IF match.found THEN Num(ScaleApi(FloatOf(match.ip, match.fp)))
            ELSE Num(0)

\* the body of `if value:` for one matching field: the returned percent,
\* or Nil when the loop goes on to the next field
FieldPercent(field) ==
    LET value == Get(field, "value", None) IN
    IF ~Truthy(value) THEN Nil
    ELSE LET valor_str == Strip(Replace(Replace(value.s, "%", <<>>), ",", <<".">>))
             match == ReSearch(valor_str)
         IN IF match.found THEN Num(ScaleApi(FloatOf(match.ip, match.fp)))
            ELSE Nil

\* the fallback on the task's status
StatusFallback(t) ==
    LET status == Get(t, "status", "New") IN
    IF status \in {"Completed", "Cancelled"} THEN Flt(100)
    ELSE IF status \in {"Active", "InProgress"} THEN Flt(50)
    ELSE 0

\* the for loop over task['customFields'], from entry i on
RECURSIVE FieldsLoop(_, _)
FieldsLoop(fields, i) ==
    IF i > Len(fields) THEN Nil
    ELSE IF TitleMatches(fields[i]) /\ FieldPercent(fields[i]) # Nil
         THEN FieldPercent(fields[i])
         ELSE FieldsLoop(fields, i + 1)

extrair_percentual_api(t) ==
    LET found == IF "customFields" \in DOMAIN t /\ t.customFields # <<>>
                 THEN FieldsLoop(t.customFields, 1)
                 ELSE Nil
    IN IF found # Nil THEN found.v ELSE StatusFallback(t)

----------------------------------------------------------------------------
(* Inputs of the API path *)

\* values of task['status'] the API sends, and one it does not
Statuses == {"Completed", "Cancelled", "Active", "InProgress", "New", "Deferred"}

\* titles of custom fields: one of possible_titles as written, one in
\* another case and padded with blanks, and one that matches none
TitleSamples ==
    { <<"%"," ","A","n","d","a","m","e","n","t","o">>,
      <<" ","P","R","O","G","R","E","S","S"," ">>,
      <<"S","t","a","t","u","s">> }

\* values of custom fields: empty, two with a number, one without digits
ValueSamples ==
    { <<>>, <<"8","5","%">>, <<"0",",","5">>, <<"-">> }

\* a customFields entry: 'title' and 'value' each absent or present, the
\* value possibly None
FieldSamples ==
    LET titles == {<<>>} \cup {<<"title", Str(t)>> : t \in TitleSamples}
        values == {<<>>, <<"value", None>>}
                    \cup {<<"value", Str(v)>> : v \in ValueSamples}
        Dict(kv) == IF kv = <<>> THEN <<>> ELSE (kv[1] :> kv[2])
    IN {Dict(t) @@ Dict(v) : t \in titles, v \in values}

\* the variables of the other scripts and helpers, unused
IdleApi ==
    /\ IdleNet
    /\ user_id = Nil /\ responsavel = Nil /\ row = Nil
    /\ classificacao = Nil /\ percentuais = <<>> /\ metrics = Nil

\* a task whose one custom field has a matching title and a value still to
\* be typed, with or without a status
InitApiValue ==
    /\ \E st \in {"Completed", "Active", "New"}, hasStatus \in BOOLEAN :
          LET cf == << [title |-> Str(<<"%"," ","A","n","d","a","m","e","n","t","o">>),
                        value |-> Str(<<>>)] >>
          IN task = IF hasStatus THEN [customFields |-> cf, status |-> st]
                    ELSE [customFields |-> cf]
    /\ percentual = Nil /\ pc = "input" /\ IdleApi

\* one more character of the custom field's value
TypeValue ==
    /\ pc = "input"
    /\ Len(task.customFields) = 1 /\ "value" \in DOMAIN task.customFields[1]
    /\ task.customFields[1].value # None
    /\ Len(task.customFields[1].value.s) < MaxLen
    /\ \E c \in Alphabet :
          task' = [task EXCEPT !.customFields[1].value.s = Append(@, c)]
    /\ UNCHANGED netVars
    /\ UNCHANGED <<user_id, percentual, responsavel, row, classificacao,
                   percentuais, metrics, pc>>

\* df_filtrado.apply(extrair_percentual, axis=1), for one task
ExtrairPercentualApi ==
    /\ pc = "input"
    /\ percentual' = Num(extrair_percentual_api(task))
    /\ pc' = "done"
    /\ UNCHANGED netVars
    /\ UNCHANGED <<task, user_id, responsavel, row, classificacao,
                   percentuais, metrics>>

NextApiValue == TypeValue \/ ExtrairPercentualApi

SpecApiValue == InitApiValue /\ [][NextApiValue]_vars

\* a task without custom fields yet: customFields absent or an empty list,
\* status absent or present
InitApiFields ==
    /\ \E hasFields, hasStatus \in BOOLEAN, st \in Statuses :
          LET a == IF hasFields THEN ("customFields" :> <<>>) ELSE <<>>
              b == IF hasStatus THEN ("status" :> st) ELSE <<>>
          IN task = a @@ b
    /\ percentual = Nil /\ pc = "input" /\ IdleApi

\* one more entry of the customFields list
AddField ==
    /\ pc = "input"
    /\ "customFields" \in DOMAIN task
    /\ Len(task.customFields) < MaxFields
    /\ \E f \in FieldSamples :
          task' = [task EXCEPT !.customFields = Append(@, f)]
    /\ UNCHANGED netVars
    /\ UNCHANGED <<user_id, percentual, responsavel, row, classificacao,
                   percentuais, metrics, pc>>

NextApiFields == AddField \/ ExtrairPercentualApi

SpecApiFields == InitApiFields /\ [][NextApiFields]_vars

----------------------------------------------------------------------------
(* Claims about extrair_percentual of acesso.py *)

Andamento == <<"%"," ","A","n","d","a","m","e","n","t","o">>

\* the text of the one custom field of SpecApiValue
TypedValue == task.customFields[1].value.s

\* s is digits, or digits '.' digits: what the pattern matches
IsDecimal(s) ==
    /\ s # <<>>
    /\ \A i \in 1..Len(s) : s[i] \in Digits \cup {"."}
    /\ Cardinality({i \in 1..Len(s) : s[i] = "."}) <= 1
    /\ s[1] # "." /\ s[Len(s)] # "."

\* the text with every '%' dropped and every ',' turned into '.'
Cleaned(s) ==
    LET keep == {i \in 1..Len(s) : s[i] # "%"}
        Nth(k) == CHOOSE i \in keep : Cardinality({j \in keep : j < i}) = k - 1
    IN [k \in 1..Cardinality(keep) |->
            IF s[Nth(k)] = "," THEN "." ELSE s[Nth(k)]]

\* the bounds <<i, j>> of the first decimal number of s: the leftmost
\* start, and from it the longest decimal
FirstDecimal(s) ==
    LET spans == {ij \in (1..Len(s)) \X (1..Len(s)) :
                    ij[1] <= ij[2] /\ IsDecimal(SubSeq(s, ij[1], ij[2]))}
    IN CHOOSE ij \in spans :
         \A kl \in spans :
            ij[1] < kl[1] \/ (ij[1] = kl[1] /\ ij[2] >= kl[2])

\* the value of a decimal text, in 1/Scale units
RECURSIVE DecimalValue(_)
DecimalValue(s) ==
    IF \E i \in 1..Len(s) : s[i] = "."
    THEN LET dot == CHOOSE i \in 1..Len(s) : s[i] = "."
             nfrac == Len(s) - dot
         IN DecimalValue(SubSeq(s, 1, dot - 1)) +
            DecimalValue(SubSeq(s, dot + 1, Len(s))) \div Pow10(nfrac)
    ELSE IF s = <<>> THEN 0
    ELSE DecimalValue(SubSeq(s, 1, Len(s) - 1)) * 10 + DigitVal(s[Len(s)]) * Scale

HasDigit(s) == \E i \in 1..Len(s) : s[i] \in Digits

NoFieldYieldsNumber(t) ==
    \/ "customFields" \notin DOMAIN t
    \/ \A i \in 1..Len(t.customFields) :
         LET f == t.customFields[i] IN
         \/ ~TitleMatches(f)
         \/ "value" \notin DOMAIN f
         \/ f.value = None
         \/ ~HasDigit(f.value.s)

StatusHeuristic(present, status) ==
    CASE present /\ status \in {"Completed", "Cancelled"} -> Flt(100)
      [] present /\ status \in {"Active", "InProgress"} -> Flt(50)
      [] OTHER -> 0

ApiScaleRule(n) ==
    IF n <= Flt(1) THEN n * 100 ELSE IF n <= Flt(100) THEN n ELSE Flt(100)

----------------------------------------------------------------------------
(* dashaboard.py: extrair_percentual *)

\* the text 'None'
NoneText == <<"N", "o", "n", "e">>

\* pd.isna(valor) or valor == '' or valor == 'None'; a missing cell is None
IsMissing(valor) ==
    \/ valor = None
    \/ valor.k = "str" /\ valor.s \in {<<>>, NoneText}

\* float(s) for a text s: [ok, v].  Python accepts blanks around an optional
\* sign and digits with at most one '.', at least one digit in all (the
\* other spellings it accepts need letters or '_')
FloatParse(s) ==
    LET t == Strip(s)
        signed == t # <<>> /\ t[1] \in {"-", "+"}
        body == IF signed THEN Tail(t) ELSE t
        dots == {i \in 1..Len(body) : body[i] = "."}
        wellFormed == /\ \A i \in 1..Len(body) : body[i] \in Digits \cup {"."}
                      /\ Cardinality(dots) <= 1
                      /\ HasDigit(body)
        dot == IF dots = {} THEN Len(body) + 1 ELSE CHOOSE i \in dots : TRUE
        mag == FloatOf(SubSeq(body, 1, dot - 1), SubSeq(body, dot + 1, Len(body)))
    IN IF wellFormed
       THEN [ok |-> TRUE, v |-> IF signed /\ t[1] = "-" THEN 0 - mag ELSE mag]
       ELSE [ok |-> FALSE, v |-> 0]

\* float(valor) inside the try: of a number the number, of a text its parse
ToFloat(valor) ==
    IF valor.k = "num" THEN [ok |-> TRUE, v |-> valor.v] ELSE FloatParse(valor.s)

\* `num if num <= 100 else num/100`
ScaleSheet(num) == IF num <= Flt(100) THEN num ELSE num \div 100

\* the text branch: the first number of the cleaned text as it stands, or 0.0
TextPercent(s) ==
    LET valor_str == Replace(Replace(s, "%", <<>>), ",", <<".">>)
        match == ReSearch(valor_str)
    IN IF match.found THEN FloatOf(match.ip, match.fp) ELSE 0

extrair_percentual_sheet(valor) ==
    IF IsMissing(valor) THEN 0
    ELSE IF ToFloat(valor).ok THEN ScaleSheet(ToFloat(valor).v)
    ELSE TextPercent(valor.s)

----------------------------------------------------------------------------
(* Inputs of the spreadsheet path *)

\* numbers a numeric percent column can hold
NumberSamples ==
    {Flt(0 - 5), 0, Scale \div 2, Flt(1), Flt(50), Flt(100), Flt(150), Flt(20000)}

\* the variables of acesso.py and of the later stages, unused
IdleSheet ==
    /\ IdleNet
    /\ task = Nil /\ user_id = Nil /\ responsavel = Nil
    /\ classificacao = Nil /\ percentuais = <<>> /\ metrics = Nil

\* one row of df_dashboard: a status and a percent cell that is missing, a
\* number, the text 'None', or a text still to be typed
InitSheet ==
    /\ \E st \in {"Completed", "New"},
          cell \in {None, Str(<<>>), Str(NoneText)} \cup {Num(v) : v \in NumberSamples} :
          row = [Status |-> st, Percentual |-> cell]
    /\ percentual = Nil /\ pc = "input" /\ IdleSheet

\* one more character of the percent cell
TypeCell ==
    /\ pc = "input"
    /\ row.Percentual.k = "str" /\ row.Percentual.s # NoneText
    /\ Len(row.Percentual.s) < MaxLen
    /\ \E c \in Alphabet : row' = [row EXCEPT !.Percentual.s = Append(@, c)]
    /\ UNCHANGED netVars
    /\ UNCHANGED <<task, user_id, percentual, responsavel, classificacao,
                   percentuais, metrics, pc>>

\* ExtrairPercentualSheet with the status fallback of acesso.py applied to a
\* cell without a number
ExtrairPercentualSheetStatus ==
    /\ pc = "input"
    /\ percentual' =
         Num(IF row.Percentual = None \/ (row.Percentual.k = "str" /\ ~HasDigit(row.Percentual.s))
             THEN StatusFallback([status |-> row.Status])
             ELSE extrair_percentual_sheet(row.Percentual))
    /\ pc' = "done"
    /\ UNCHANGED netVars
    /\ UNCHANGED <<task, user_id, responsavel, row, classificacao,
                   percentuais, metrics>>

\* df_dashboard['Percentual'].apply(extrair_percentual), for one row
ExtrairPercentualSheet ==
    /\ pc = "input"
    /\ percentual' = Num(extrair_percentual_sheet(row.Percentual))
    /\ pc' = "done"
    /\ UNCHANGED netVars
    /\ UNCHANGED <<task, user_id, responsavel, row, classificacao,
                   percentuais, metrics>>

NextSheet == TypeCell \/ ExtrairPercentualSheet

SpecSheet == InitSheet /\ [][NextSheet]_vars

----------------------------------------------------------------------------
(* Claims about extrair_percentual of dashaboard.py *)

\* C2: every value extrair_percentual of dashaboard.py returns lies in
\* [0, 100], whatever the cell holds.
C2_SheetPercentInRange ==
    pc = "done" => 0 <= percentual.v /\ percentual.v <= Flt(100)

\* the cell holds no number: it is missing, or a text without a digit
CellWithoutNumber ==
    \/ row.Percentual = None
    \/ row.Percentual.k = "str" /\ ~HasDigit(row.Percentual.s)

\* C4 as stated: a cell that is missing, empty or without a parseable number
\* yields the status heuristic applied to the row's status.
C4_SheetStatusFallback ==
    pc = "done" /\ CellWithoutNumber =>
        percentual.v = StatusHeuristic(TRUE, row.Status)

\* C4 amended: a cell that is missing, empty, 'None' or without a parseable
\* number yields 0.0, whatever the row's status.
C4_SheetNoNumberIsZero ==
    pc = "done" /\ CellWithoutNumber => percentual.v = 0

\* a missing cell in a Completed row came back as 0
C4_Witness ==
    /\ pc = "done"
    /\ row.Percentual = None /\ row.Status = "Completed"
    /\ percentual.v = 0

\* the number extracted from the cell: the cell itself, float() of its text,
\* or else the first decimal of the cleaned text
ExtractedNumber ==
    LET cell == row.Percentual IN
    IF cell.k = "num" THEN cell.v
    ELSE IF FloatParse(cell.s).ok THEN FloatParse(cell.s).v
    ELSE LET s == Cleaned(cell.s)
             ij == FirstDecimal(s)
         IN DecimalValue(SubSeq(s, ij[1], ij[2]))

\* C6: for every cell a number n is extracted from, a number or a text, the
\* result is n/100 when n > 100 and n when n <= 100.
C6_SheetScaleRule ==
    pc = "done" /\ row.Percentual # None /\ ~CellWithoutNumber =>
        percentual.v = IF ExtractedNumber > Flt(100)
                       THEN ExtractedNumber \div 100
                       ELSE ExtractedNumber

----------------------------------------------------------------------------
(* classificar_status of both scripts *)

\* classificar_status_api with `percentual <= 100` for `percentual < 100`
classificar_status_api_le(p) ==
    IF p = 0 THEN "Não Iniciada"
    ELSE IF p <= Flt(100) THEN "Em Andamento"
    ELSE "Concluída"

\* acesso.py: three buckets
classificar_status_api(p) ==
    IF p = 0 THEN "Não Iniciada"
    ELSE IF p < Flt(100) THEN "Em Andamento"
    ELSE "Concluída"

\* classificar_status_sheet with `<=` for `<` at the inner boundaries
classificar_status_sheet_le(p) ==
    IF p = 0 THEN "Não Iniciada"
    ELSE IF p <= Flt(25) THEN "Iniciada"
    ELSE IF p <= Flt(50) THEN "Em Desenvolvimento"
    ELSE IF p <= Flt(75) THEN "Em Progresso"
    ELSE IF p < Flt(100) THEN "Quase Concluída"
    ELSE "Concluída"

\* dashaboard.py: six buckets
classificar_status_sheet(p) ==
    IF p = 0 THEN "Não Iniciada"
    ELSE IF p < Flt(25) THEN "Iniciada"
    ELSE IF p < Flt(50) THEN "Em Desenvolvimento"
    ELSE IF p < Flt(75) THEN "Em Progresso"
    ELSE IF p < Flt(100) THEN "Quase Concluída"
    ELSE "Concluída"

\* the percents in [0, 100] in steps of one half
PercentRange == {k * (Scale \div 2) : k \in 0..(2 * 100)}

\* the variables of the other stages, unused
IdleClassify ==
    /\ IdleNet
    /\ task = Nil /\ user_id = Nil /\ responsavel = Nil /\ row = Nil
    /\ percentuais = <<>> /\ metrics = Nil

\* a Percentual value of either script: acesso.py yields values of [0, 100],
\* dashaboard.py also values outside
InitClassify ==
    /\ \/ pc = "api" /\ \E v \in PercentRange : percentual = Num(v)
       \/ pc = "sheet" /\ \E v \in PercentRange \cup {Flt(0 - 5), Flt(150)} :
                            percentual = Num(v)
    /\ classificacao = Nil /\ IdleClassify

\* df_filtrado['Percentual'].apply(classificar_status), for one row
ClassificarApi ==
    /\ pc = "api"
    /\ classificacao' = classificar_status_api(percentual.v)
    /\ pc' = "api_done"
    /\ UNCHANGED netVars
    /\ UNCHANGED <<task, user_id, percentual, responsavel, row, percentuais, metrics>>

\* df_dashboard['Percentual'].apply(classificar_status), for one row
ClassificarSheet ==
    /\ pc = "sheet"
    /\ classificacao' = classificar_status_sheet(percentual.v)
    /\ pc' = "sheet_done"
    /\ UNCHANGED netVars
    /\ UNCHANGED <<task, user_id, percentual, responsavel, row, percentuais, metrics>>

NextClassify == ClassificarApi \/ ClassificarSheet

SpecClassify == InitClassify /\ [][NextClassify]_vars

\* C7: the coarse classifier of acesso.py maps 0 to 'Não Iniciada', every p
\* with 0 < p < 100 to 'Em Andamento' and 100 to 'Concluída', and gives a
\* label to every percent of [0, 100]; 37 is 'Em Andamento'.
C7_CoarseClassifier ==
    pc = "api_done" =>
        LET p == percentual.v IN
        /\ classificacao \in {"Não Iniciada", "Em Andamento", "Concluída"}
        /\ classificacao = "Não Iniciada" <=> p = 0
        /\ classificacao = "Em Andamento" <=> (0 < p /\ p < Flt(100))
        /\ classificacao = "Concluída" <=> p = Flt(100)

\* 37 was classified 'Em Andamento'
C7_Witness ==
    pc = "api_done" /\ percentual.v = Flt(37) /\ classificacao = "Em Andamento"

\* C8: the fine classifier of dashaboard.py maps, over [0, 100], 0 to 'Não
\* Iniciada', (0,25) to 'Iniciada', [25,50) to 'Em Desenvolvimento', [50,75)
\* to 'Em Progresso', [75,100) to 'Quase Concluída' and 100 to 'Concluída';
\* 25, 50 and 75 fall in the upper bucket.
C8_FineClassifier ==
    pc = "sheet_done" /\ 0 <= percentual.v /\ percentual.v <= Flt(100) =>
        LET p == percentual.v IN
        /\ classificacao \in {"Não Iniciada", "Iniciada", "Em Desenvolvimento",
                              "Em Progresso", "Quase Concluída", "Concluída"}
        /\ classificacao = "Não Iniciada" <=> p = 0
        /\ classificacao = "Iniciada" <=> (0 < p /\ p < Flt(25))
        /\ classificacao = "Em Desenvolvimento" <=> (Flt(25) <= p /\ p < Flt(50))
        /\ classificacao = "Em Progresso" <=> (Flt(50) <= p /\ p < Flt(75))
        /\ classificacao = "Quase Concluída" <=> (Flt(75) <= p /\ p < Flt(100))
        /\ classificacao = "Concluída" <=> p = Flt(100)

\* the boundary 25 was classified 'Em Desenvolvimento'
C8_Witness ==
    pc = "sheet_done" /\ percentual.v = Flt(25)
        /\ classificacao = "Em Desenvolvimento"

----------------------------------------------------------------------------
(* acesso.py: is_user_responsible *)

\* `x in xs` for a list
InList(x, xs) == \E i \in 1..Len(xs) : xs[i] = x

\* is_user_responsible with the two checks in the other order
is_user_responsible_swapped(t, uid) ==
    IF "responsibleIds" \in DOMAIN t /\ t.responsibleIds # <<>>
    THEN InList(uid, t.responsibleIds)
    ELSE IF "authorIds" \in DOMAIN t /\ t.authorIds # <<>>
            /\ InList(uid, t.authorIds)
         THEN TRUE
         ELSE TRUE

\* is_user_responsible with a strict author check: a non-empty author list
\* decides alone
is_user_responsible_author_only(t, uid) ==
    IF "authorIds" \in DOMAIN t /\ t.authorIds # <<>>
    THEN InList(uid, t.authorIds)
    ELSE IF "responsibleIds" \in DOMAIN t /\ t.responsibleIds # <<>>
         THEN InList(uid, t.responsibleIds)
         ELSE TRUE

is_user_responsible(t, uid) ==
    IF "authorIds" \in DOMAIN t /\ t.authorIds # <<>> /\ InList(uid, t.authorIds)
    THEN TRUE
    ELSE IF "responsibleIds" \in DOMAIN t /\ t.responsibleIds # <<>>
         THEN InList(uid, t.responsibleIds)
         ELSE TRUE

\* the ids of users
Users == {"u1", "u2"}

\* the lists of at most MaxIds ids
IdLists == UNION {[1..n -> Users] : n \in 0..MaxIds}

\* the variables of the other stages, unused
IdleResponsible ==
    /\ IdleNet
    /\ percentual = Nil /\ row = Nil /\ classificacao = Nil
    /\ percentuais = <<>> /\ metrics = Nil

\* a task with authorIds and responsibleIds each absent or a list, and the
\* current user
InitResponsible ==
    /\ user_id \in Users
    /\ \E a, r \in {Nil} \cup {Str(l) : l \in IdLists} :
          task = (IF a = Nil THEN <<>> ELSE ("authorIds" :> a.s))
                   @@ (IF r = Nil THEN <<>> ELSE ("responsibleIds" :> r.s))
    /\ responsavel = Nil /\ pc = "input" /\ IdleResponsible

\* df_tasks.apply(lambda task: is_user_responsible(task, user_id)), one task
IsUserResponsible ==
    /\ pc = "input"
    /\ responsavel' = is_user_responsible(task, user_id)
    /\ pc' = "done"
    /\ UNCHANGED netVars
    /\ UNCHANGED <<task, user_id, percentual, row, classificacao, percentuais, metrics>>

NextResponsible == IsUserResponsible

SpecResponsible == InitResponsible /\ [][NextResponsible]_vars

\* C9 as stated: (a) an author list containing the user gives true; (b)
\* otherwise a record that has a responsible list gives true iff the user is
\* a member; (c) a record with neither list gives true.
C9_PriorityRules ==
    pc = "done" =>
        LET hasA == "authorIds" \in DOMAIN task
            hasR == "responsibleIds" \in DOMAIN task
            isAuthor == hasA /\ InList(user_id, task.authorIds)
        IN /\ isAuthor => responsavel = TRUE
           /\ ~isAuthor /\ hasR =>
                responsavel = InList(user_id, task.responsibleIds)
           /\ ~hasA /\ ~hasR => responsavel = TRUE

\* C9 amended: (a) an author list containing the user gives true; (b)
\* otherwise a record with a non-empty responsible list gives true iff the
\* user is a member, without falling through; (c) every other record (no
\* responsible list, or an empty one) gives true.
C9_PriorityRulesNonEmpty ==
    pc = "done" =>
        LET hasA == "authorIds" \in DOMAIN task
            hasR == "responsibleIds" \in DOMAIN task
            isAuthor == hasA /\ InList(user_id, task.authorIds)
            nonEmptyR == hasR /\ Len(task.responsibleIds) > 0
        IN /\ isAuthor => responsavel = TRUE
           /\ ~isAuthor /\ nonEmptyR =>
                responsavel = InList(user_id, task.responsibleIds)
           /\ ~isAuthor /\ ~nonEmptyR => responsavel = TRUE

\* only responsibleIds = ['u2'] with user 'u1' came back false
C9_Witness ==
    /\ pc = "done"
    /\ DOMAIN task = {"responsibleIds"} /\ task.responsibleIds = <<"u2">>
    /\ user_id = "u1"
    /\ responsavel = FALSE

\* C19: is_user_responsible returns false exactly when the record has a
\* non-empty responsibleIds list without the user and no authorIds list with
\* the user; every other record gives true, in particular one whose
\* non-empty authorIds lacks the user and whose responsibleIds is absent or
\* empty.
C19_FalseOnlyWhenExcluded ==
    pc = "done" =>
        LET excluded ==
                /\ "responsibleIds" \in DOMAIN task
                /\ task.responsibleIds # <<>>
                /\ ~InList(user_id, task.responsibleIds)
                /\ ~("authorIds" \in DOMAIN task
                        /\ InList(user_id, task.authorIds))
            foreignAuthor ==
                /\ "authorIds" \in DOMAIN task
                /\ task.authorIds # <<>>
                /\ ~InList(user_id, task.authorIds)
                /\ ("responsibleIds" \in DOMAIN task
                        => task.responsibleIds = <<>>)
        IN /\ responsavel = FALSE <=> excluded
           /\ responsavel \in BOOLEAN
           /\ foreignAuthor => responsavel = TRUE

\* a record written by 'u2' with no responsibleIds is kept for user 'u1'
C19_Witness ==
    /\ pc = "done"
    /\ DOMAIN task = {"authorIds"} /\ task.authorIds = <<"u2">>
    /\ user_id = "u1"
    /\ responsavel = TRUE

----------------------------------------------------------------------------
(* The metrics block of both scripts *)

\* Series.sum()
RECURSIVE Sum(_)
Sum(ps) == IF ps = <<>> THEN 0 ELSE Head(ps) + Sum(Tail(ps))

IsConcluida(p) == p >= Flt(100)

IsConcluidaStrict(p) == p > Flt(100)

IsEmAndamento(p) == p > 0 /\ p < Flt(100)

IsNaoIniciada(p) == p = 0

\* a quotient num/den, kept exact
Ratio(num, den) == [num |-> num, den |-> den]

\* metrics_api counting `Percentual > 100` as concluded
metrics_api_strict(ps) ==
    LET total_tasks == Len(ps)
        tasks_concluidas == Len(SelectSeq(ps, IsConcluidaStrict))
    IN [total_tasks |-> total_tasks,
        tasks_concluidas |-> tasks_concluidas,
        tasks_em_andamento |-> Len(SelectSeq(ps, IsEmAndamento)),
        tasks_nao_iniciadas |-> Len(SelectSeq(ps, IsNaoIniciada)),
        taxa_conclusao |-> IF total_tasks > 0
                           THEN Ratio(tasks_concluidas * 100, total_tasks)
                           ELSE Ratio(0, 1),
        media_progresso |-> IF total_tasks > 0
                            THEN Ratio(Sum(ps), total_tasks)
                            ELSE Ratio(0, 1)]

\* acesso.py: the metrics of df_para_dashboard
metrics_api(ps) ==
    LET total_tasks == Len(ps)
        tasks_concluidas == Len(SelectSeq(ps, IsConcluida))
    IN [total_tasks |-> total_tasks,
        tasks_concluidas |-> tasks_concluidas,
        tasks_em_andamento |-> Len(SelectSeq(ps, IsEmAndamento)),
        tasks_nao_iniciadas |-> Len(SelectSeq(ps, IsNaoIniciada)),
        taxa_conclusao |-> IF total_tasks > 0
                           THEN Ratio(tasks_concluidas * 100, total_tasks)
                           ELSE Ratio(0, 1),
        media_progresso |-> IF total_tasks > 0
                            THEN Ratio(Sum(ps), total_tasks)
                            ELSE Ratio(0, 1)]

\* dashaboard.py: the metrics of df_dashboard; on an empty table the two
\* rates are shown as "0%"
metrics_sheet(ps) ==
    LET total_tasks == Len(ps)
        tasks_concluidas == Len(SelectSeq(ps, IsConcluida))
        tasks_em_andamento == Len(SelectSeq(ps, IsEmAndamento))
        tasks_nao_iniciadas == Len(SelectSeq(ps, IsNaoIniciada))
    IN IF total_tasks > 0
       THEN [total_tasks |-> total_tasks,
             tasks_concluidas |-> tasks_concluidas,
             tasks_em_andamento |-> tasks_em_andamento,
             tasks_nao_iniciadas |-> tasks_nao_iniciadas,
             taxa_conclusao |-> Ratio(tasks_concluidas * 100, total_tasks),
             media_progresso |-> Ratio(Sum(ps), total_tasks)]
       ELSE [total_tasks |-> total_tasks,
             tasks_concluidas |-> tasks_concluidas,
             tasks_em_andamento |-> tasks_em_andamento,
             tasks_nao_iniciadas |-> tasks_nao_iniciadas,
             taxa_conclusao |-> Ratio(0, 1),
             media_progresso |-> Ratio(0, 1)]

\* the label of every row, the column df_dashboard['Classificacao']
Classificacoes(ps) == [i \in 1..Len(ps) |-> classificar_status_sheet(ps[i])]

\* kpis_sheet with the gauge's completion rate divided without its guard
kpis_sheet_unguarded(ps) ==
    LET total_tasks == Len(ps)
        tasks_concluidas == Len(SelectSeq(ps, IsConcluida))
        tasks_em_andamento == Len(SelectSeq(ps, IsEmAndamento))
        labels == Classificacoes(ps)
        count(c) == Cardinality({i \in 1..Len(ps) : labels[i] = c})
    IN [porcentagem |->
            [c \in {labels[i] : i \in 1..Len(ps)} |->
                IF total_tasks > 0 THEN Ratio(count(c) * 100, total_tasks)
                ELSE Ratio(0, 1)],
        taxa_progresso |->
            IF total_tasks > 0
            THEN Ratio((tasks_em_andamento + tasks_concluidas) * 100, total_tasks)
            ELSE Nil,
        gauge_taxa_conclusao |-> Ratio(tasks_concluidas * 100, total_tasks),
        progresso_medio |->
            IF total_tasks > 0 THEN Ratio(Sum(ps), total_tasks) ELSE Ratio(0, 1)]

\* dashaboard.py: the other quotients by total_tasks: the share of every
\* classification, the progress rate (computed only under `if total_tasks >
\* 0`, else Nil) and the values of the two gauges
kpis_sheet(ps) ==
    LET total_tasks == Len(ps)
        tasks_concluidas == Len(SelectSeq(ps, IsConcluida))
        tasks_em_andamento == Len(SelectSeq(ps, IsEmAndamento))
        labels == Classificacoes(ps)
        count(c) == Cardinality({i \in 1..Len(ps) : labels[i] = c})
    IN [porcentagem |->
            [c \in {labels[i] : i \in 1..Len(ps)} |->
                IF total_tasks > 0 THEN Ratio(count(c) * 100, total_tasks)
                ELSE Ratio(0, 1)],
        taxa_progresso |->
            IF total_tasks > 0
            THEN Ratio((tasks_em_andamento + tasks_concluidas) * 100, total_tasks)
            ELSE Nil,
        gauge_taxa_conclusao |->
            IF total_tasks > 0 THEN Ratio(tasks_concluidas * 100, total_tasks)
            ELSE Ratio(0, 1),
        progresso_medio |->
            IF total_tasks > 0 THEN Ratio(Sum(ps), total_tasks) ELSE Ratio(0, 1)]

\* Percentual values of acesso.py: inside [0, 100]
ApiPercentSamples == {0, Flt(50), Flt(100), Flt(25) + Scale \div 2}

\* Percentual values of dashaboard.py: also a negative cell and an
\* unscaled text such as '150%'
SheetPercentSamples == ApiPercentSamples \cup {Flt(0 - 5), Flt(150)}

\* the variables of the other stages, unused
IdleMetrics ==
    /\ IdleNet
    /\ task = Nil /\ user_id = Nil /\ percentual = Nil /\ responsavel = Nil
    /\ row = Nil /\ classificacao = Nil

\* an empty displayed table of either script
InitMetrics ==
    /\ pc \in {"api", "sheet"}
    /\ percentuais = <<>> /\ metrics = Nil /\ IdleMetrics

\* one more row of the displayed table
AddRow ==
    /\ pc \in {"api", "sheet"}
    /\ Len(percentuais) < MaxTasks
    /\ \E p \in IF pc = "api" THEN ApiPercentSamples ELSE SheetPercentSamples :
          percentuais' = Append(percentuais, p)
    /\ UNCHANGED netVars
    /\ UNCHANGED <<task, user_id, percentual, responsavel, row, classificacao,
                   metrics, pc>>

\* acesso.py: the metrics block
MetricsApi ==
    /\ pc = "api"
    /\ metrics' = metrics_api(percentuais)
    /\ pc' = "api_done"
    /\ UNCHANGED netVars
    /\ UNCHANGED <<task, user_id, percentual, responsavel, row, classificacao,
                   percentuais>>

\* dashaboard.py: the metrics block, the distribution, the gauges and the
\* executive summary
MetricsSheet ==
    /\ pc = "sheet"
    /\ metrics' = metrics_sheet(percentuais) @@ kpis_sheet(percentuais)
    /\ pc' = "sheet_done"
    /\ UNCHANGED netVars
    /\ UNCHANGED <<task, user_id, percentual, responsavel, row, classificacao,
                   percentuais>>

NextMetrics == AddRow \/ MetricsApi \/ MetricsSheet

SpecMetrics == InitMetrics /\ [][NextMetrics]_vars

\* the rows of the displayed table that satisfy P
RowsWhere(P(_)) == {i \in 1..Len(percentuais) : P(percentuais[i])}

\* the sum of the Percentual column, row by row from the last
RECURSIVE SumUpTo(_)
SumUpTo(n) == IF n = 0 THEN 0 ELSE SumUpTo(n - 1) + percentuais[n]

\* C10: in both modes total = number of tasks, completed = number with
\* percent >= 100, inProgress = number with 0 < percent < 100, notStarted =
\* number with percent = 0, completionRate = completed/total*100 and
\* averageProgress = mean of percent; [0, 50, 100] gives 3, 1, 1, 1, 100/3
\* and 50.
C10_SummaryMetrics ==
    pc \in {"api_done", "sheet_done"} =>
        LET n == Len(percentuais)
            done == Cardinality(RowsWhere(LAMBDA p : p >= Flt(100)))
        IN /\ metrics.total_tasks = n
           /\ metrics.tasks_concluidas = done
           /\ metrics.tasks_em_andamento =
                Cardinality(RowsWhere(LAMBDA p : 0 < p /\ p < Flt(100)))
           /\ metrics.tasks_nao_iniciadas = Cardinality(RowsWhere(LAMBDA p : p = 0))
           /\ n > 0 =>
                /\ metrics.taxa_conclusao.num * n = done * 100 * metrics.taxa_conclusao.den
                /\ metrics.media_progresso.num * n = SumUpTo(n) * metrics.media_progresso.den
           /\ percentuais = <<0, Flt(50), Flt(100)>> =>
                /\ metrics.total_tasks = 3 /\ metrics.tasks_concluidas = 1
                /\ metrics.tasks_em_andamento = 1 /\ metrics.tasks_nao_iniciadas = 1
                /\ 3 * metrics.taxa_conclusao.num = 100 * metrics.taxa_conclusao.den
                /\ metrics.media_progresso.num = Flt(50) * metrics.media_progresso.den

\* the metrics of [0, 50, 100] were computed in API mode
C10_Witness ==
    /\ pc = "api_done"
    /\ percentuais = <<0, Flt(50), Flt(100)>>
    /\ metrics.tasks_concluidas = 1 /\ metrics.tasks_em_andamento = 1
    /\ metrics.tasks_nao_iniciadas = 1

----------------------------------------------------------------------------
(* Claims about the quotients of the metrics on an empty table *)

\* a quotient whose divisor is not zero
Defined(q) == q.den # 0

\* the quotient 0
IsZero(q) == q.den # 0 /\ q.num = 0

\* C11: on an empty displayed table, in both modes, completionRate is 0 and
\* averageProgress is 0, and no quotient by total (completion rate, share
\* per classification, progress rate, gauges) divides by zero, on any table.
C11_EmptyTableYieldsZero ==
    pc \in {"api_done", "sheet_done"} =>
        /\ Defined(metrics.taxa_conclusao) /\ Defined(metrics.media_progresso)
        /\ Len(percentuais) = 0 =>
             IsZero(metrics.taxa_conclusao) /\ IsZero(metrics.media_progresso)
        /\ pc = "sheet_done" =>
             /\ \A c \in DOMAIN metrics.porcentagem : Defined(metrics.porcentagem[c])
             /\ metrics.taxa_progresso # Nil => Defined(metrics.taxa_progresso)
             /\ Defined(metrics.gauge_taxa_conclusao)
             /\ Defined(metrics.progresso_medio)
             /\ Len(percentuais) = 0 =>
                  /\ IsZero(metrics.gauge_taxa_conclusao)
                  /\ IsZero(metrics.progresso_medio)
                  /\ metrics.taxa_progresso = Nil

\* the metrics of an empty table were computed by dashaboard.py
C11_Witness ==
    /\ pc = "sheet_done"
    /\ percentuais = <<>>
    /\ metrics.total_tasks = 0
    /\ IsZero(metrics.gauge_taxa_conclusao)

\* C20: in both modes the three counts partition the displayed tasks:
\* completed + inProgress + notStarted = total.
C20_CountsPartitionTotal ==
    pc \in {"api_done", "sheet_done"} =>
        metrics.tasks_concluidas + metrics.tasks_em_andamento
            + metrics.tasks_nao_iniciadas = metrics.total_tasks

----------------------------------------------------------------------------
(* acesso.py: extrair_percentual on entries of any shape *)

\* an exception leaving the function
Raised(exc) == [k |-> "raise", exc |-> exc]

\* the entry is a dict, so that field.get exists
IsDict(field) == DOMAIN field \subseteq {"title", "value"}

\* `field.get('title', '').strip()` raises AttributeError: the entry has no
\* get, or its title is None, which has no strip
TitleRaises(field) ==
    ~IsDict(field) \/ Get(field, "title", Str(<<>>)) = None

\* whether the for loop, from entry i on, reaches an entry that raises
\* before one that returns
RECURSIVE LoopRaises(_, _)
LoopRaises(fields, i) ==
    IF i > Len(fields) THEN FALSE
    ELSE IF TitleRaises(fields[i]) THEN TRUE
    ELSE IF TitleMatches(fields[i]) /\ FieldPercent(fields[i]) # Nil THEN FALSE
    ELSE LoopRaises(fields, i + 1)

\* extrair_percentual with its outcome: the float returned, or the
\* exception no handler of the function catches
extrair_percentual_api_raw(t) ==
    IF "customFields" \in DOMAIN t /\ t.customFields # <<>>
       /\ LoopRaises(t.customFields, 1)
    THEN Raised("AttributeError")
    ELSE Num(extrair_percentual_api(t))

\* customFields entries as a JSON body can hold them: well-formed ones, one
\* with a null title, and one that is a string instead of an object
RawFieldSamples ==
    { [title |-> Str(<<"%"," ","A","n","d","a","m","e","n","t","o">>),
       value |-> Str(<<"8", "5", "%">>)],
      [title |-> Str(<<"%"," ","A","n","d","a","m","e","n","t","o">>),
       value |-> None],
      [title |-> Str(<<"S","t","a","t","u","s">>), value |-> Str(<<"-">>)],
      [title |-> None, value |-> Str(<<"8", "5", "%">>)],
      Str(<<"8", "5", "%">>) }

\* a task with an empty customFields list, with or without a status
InitApiRaw ==
    /\ \E hasStatus \in BOOLEAN :
          task = IF hasStatus THEN [customFields |-> <<>>, status |-> "Completed"]
                 ELSE [customFields |-> <<>>]
    /\ percentual = Nil /\ pc = "input" /\ IdleApi

\* one more entry of the customFields list
AddRawField ==
    /\ pc = "input"
    /\ Len(task.customFields) < MaxFields
    /\ \E f \in RawFieldSamples :
          task' = [task EXCEPT !.customFields = Append(@, f)]
    /\ UNCHANGED netVars
    /\ UNCHANGED <<user_id, percentual, responsavel, row, classificacao,
                   percentuais, metrics, pc>>

\* df_filtrado.apply(extrair_percentual, axis=1), for one task
ExtrairPercentualApiRaw ==
    /\ pc = "input"
    /\ percentual' = extrair_percentual_api_raw(task)
    /\ pc' = "done"
    /\ UNCHANGED netVars
    /\ UNCHANGED <<task, user_id, responsavel, row, classificacao,
                   percentuais, metrics>>

NextApiRaw == AddRawField \/ ExtrairPercentualApiRaw

SpecApiRaw == InitApiRaw /\ [][NextApiRaw]_vars

\* C12: normalisation never fails: extrair_percentual returns a number and
\* raises no exception for every input, a custom field with a null title or
\* value and an entry of unexpected shape included.
C12_NormalizationNeverFails ==
    pc = "done" => percentual.k = "num"

----------------------------------------------------------------------------
(* acesso.py: get_wrike_tasks, one call, request by request *)

\* most passes of the `while True` loop
MaxPages == 3

\* a Python list
List(l) == [k |-> "list", v |-> l]

\* the HTTP status codes the endpoint answers with
HTTP_OK == 200

HTTP_BAD_REQUEST == 400

HTTP_SERVER_ERROR == 500

\* requests.get raised a RequestException: no response object
ConnectionError == [k |-> "ConnectionError"]

\* a response object: status code, whether its text holds
\* 'invalid_parameter', and the decoded JSON body
Response(status_code, invalid_parameter, json) ==
    [k |-> "response", status_code |-> status_code,
     invalid_parameter |-> invalid_parameter, json |-> json]

\* ids standing for task records
TaskIds == {"t1", "t2"}

\* the cursors a body can carry: null, or one of two tokens
PageTokens == {None, Str(<<"A">>), Str(<<"B">>)}

\* the JSON bodies of a 200 answer: `data` absent or an array of one record,
\* `nextPageToken` absent or present
Bodies ==
    {d @@ n : d \in {<<>>} \cup {"data" :> <<t>> : t \in TaskIds},
              n \in {<<>>} \cup {"nextPageToken" :> p : p \in PageTokens}}

\* what one requests.get can come back with
Outcomes ==
    {ConnectionError,
     Response(HTTP_BAD_REQUEST, TRUE, <<>>),
     Response(HTTP_SERVER_ERROR, FALSE, <<>>)}
        \cup {Response(HTTP_OK, FALSE, b) : b \in Bodies}

\* response.raise_for_status() passes
IsOk(r) == r # ConnectionError /\ r.status_code < HTTP_BAD_REQUEST

\* the basic request is sent after any error status
needs_fallback_any_error(r) ==
    r # ConnectionError /\ r.status_code >= HTTP_BAD_REQUEST

\* response.status_code == 400 and 'invalid_parameter' in response.text.lower()
needs_fallback(r) ==
    r # ConnectionError /\ r.status_code = HTTP_BAD_REQUEST /\ r.invalid_parameter

\* the except branches return what was collected
error_result_partial(collected) == List(collected)

\* `return []` of the three except branches
error_result(collected) == List(<<>>)

\* params of the request of line 60
page_params(cursor, collected) ==
    (IF Truthy(cursor) THEN "nextPageToken" :> cursor ELSE <<>>)
        @@ (IF collected = <<>> THEN "fields" :> TRUE ELSE <<>>)

\* params of the request of line 69
basic_params(cursor) ==
    IF Truthy(cursor) THEN "nextPageToken" :> cursor ELSE <<>>

\* the last request sent
LastRequest == requests[Len(requests)]

\* passes of the loop begun so far
Passes == Len(SelectSeq(requests, LAMBDA q : ~q.basic))

\* the variables of the helpers, of the metrics and of the client chart
IdleCore ==
    /\ task = Nil /\ user_id = Nil /\ percentual = Nil /\ responsavel = Nil
    /\ row = Nil /\ classificacao = Nil /\ percentuais = <<>> /\ metrics = Nil
    /\ df_para_dashboard = Nil /\ cliente_metrics = Nil
    /\ df_tasks = Nil /\ df_filtrado = Nil

\* get_wrike_tasks(token) entered, nothing cached
InitFetch ==
    /\ token = Str(<<"k">>)
    /\ all_tasks = <<>> /\ next_page_token = None /\ requests = <<>>
    /\ tasks_data = Nil /\ screen = {} /\ pc = "loop"
    /\ secrets = Nil /\ cache_user = Nil /\ cache_tasks = Nil
    /\ first_call = Nil /\ calls = Nil
    /\ IdleCore

\* lines 50-60: the request of one pass of the loop
RequestPage ==
    /\ pc = "loop"
    /\ Passes < MaxPages
    /\ \E r \in Outcomes :
          requests' = Append(requests,
              [params |-> page_params(next_page_token, all_tasks),
               basic |-> FALSE, response |-> r])
    /\ pc' = "got"
    /\ UNCHANGED <<df_tasks, df_filtrado>>
    /\ UNCHANGED <<task, user_id, percentual, responsavel, row, classificacao,
                   percentuais, metrics, secrets, token, cache_user,
                   cache_tasks, first_call, calls, screen, tasks_data,
                   all_tasks, next_page_token, df_para_dashboard,
                   cliente_metrics>>

\* lines 63-69: the basic request after a 400 'invalid_parameter'
RequestBasic ==
    /\ pc = "got"
    /\ ~LastRequest.basic
    /\ needs_fallback(LastRequest.response)
    /\ \E r \in Outcomes :
          requests' = Append(requests,
              [params |-> basic_params(next_page_token),
               basic |-> TRUE, response |-> r])
    /\ screen' = screen \cup {"warning_campos"}
    /\ UNCHANGED <<df_tasks, df_filtrado>>
    /\ UNCHANGED <<task, user_id, percentual, responsavel, row, classificacao,
                   percentuais, metrics, pc, secrets, token, cache_user,
                   cache_tasks, first_call, calls, tasks_data, all_tasks,
                   next_page_token, df_para_dashboard, cliente_metrics>>

\* lines 71-94: raise_for_status, the body, the cursor, the except branches
HandleResponse ==
    /\ pc = "got"
    /\ LastRequest.basic \/ ~needs_fallback(LastRequest.response)
    /\ LET r == LastRequest.response
           data == r.json
           collected == all_tasks \o Get(data, "data", <<>>)
       IN IF ~IsOk(r)
          THEN /\ tasks_data' = error_result(all_tasks)
               /\ screen' = screen \cup {"error"}
               /\ pc' = "return"
               /\ UNCHANGED <<all_tasks, next_page_token>>
          ELSE /\ all_tasks' = collected
               /\ IF "nextPageToken" \in DOMAIN data
                  THEN /\ next_page_token' = data.nextPageToken
                       /\ pc' = "loop"
                       /\ UNCHANGED <<tasks_data, screen>>
                  ELSE /\ tasks_data' = List(collected)
                       /\ screen' = screen \cup {"success"}
                       /\ pc' = "return"
                       /\ UNCHANGED next_page_token
    /\ UNCHANGED <<df_tasks, df_filtrado>>
    /\ UNCHANGED <<task, user_id, percentual, responsavel, row, classificacao,
                   percentuais, metrics, secrets, token, cache_user,
                   cache_tasks, first_call, calls, requests,
                   df_para_dashboard, cliente_metrics>>

NextFetch == RequestPage \/ RequestBasic \/ HandleResponse

SpecFetch == InitFetch /\ [][NextFetch]_vars

----------------------------------------------------------------------------
(* Claims about one call of get_wrike_tasks *)

\* the request was answered with an error status or not at all
Failed(q) ==
    q.response = ConnectionError \/ q.response.status_code >= HTTP_BAD_REQUEST

\* a first-attempt request answered 400 'invalid_parameter'
RejectedFields(q) ==
    /\ ~q.basic
    /\ q.response # ConnectionError
    /\ q.response.status_code = HTTP_BAD_REQUEST
    /\ q.response.invalid_parameter

\* C13 as stated: when any request of the call failed, on the first or a
\* later page, the call returns the empty list; it always returns a list.
C13_AnyFailureReturnsEmpty ==
    pc = "return" =>
        /\ tasks_data.k = "list"
        /\ (\E i \in 1..Len(requests) : Failed(requests[i]))
              => tasks_data = List(<<>>)

\* C13 amended: when a request of the call failed with an HTTP or network
\* error, other than a first attempt answered 400 'invalid_parameter' (which
\* is sent again without the optional fields), the call returns the empty
\* list, whatever was collected from earlier pages; it always returns a
\* list, so no exception reaches the caller.
C13_UnrecoveredFailureReturnsEmpty ==
    /\ tasks_data = Nil \/ tasks_data.k = "list"
    /\ pc = "return" =>
        /\ tasks_data.k = "list"
        /\ (\E i \in 1..Len(requests) :
                Failed(requests[i]) /\ ~RejectedFields(requests[i]))
              => tasks_data = List(<<>>)

\* a later page failed after a record had been collected, and the call
\* returned the empty list
C13_Witness ==
    /\ pc = "return"
    /\ all_tasks # <<>>
    /\ Len(requests) >= 2
    /\ Failed(LastRequest)
    /\ tasks_data = List(<<>>)

\* the data arrays of the first n responses, in request order
RECURSIVE Concat(_)
Concat(n) ==
    IF n = 0 THEN <<>>
    ELSE Concat(n - 1) \o Get(requests[n].response.json, "data", <<>>)

\* C16: when no request fails, every request after the first carries the
\* next-page token of the previous response, the loop ends exactly at the
\* first response without a next-page token, and the result is the
\* concatenation of the data arrays of all responses in request order.
C16_PaginationFollowsCursor ==
    (\A i \in 1..Len(requests) : ~Failed(requests[i])) =>
        /\ \A i \in 2..Len(requests) :
              /\ "nextPageToken" \in DOMAIN requests[i - 1].response.json
              /\ "nextPageToken" \in DOMAIN requests[i].params
              /\ requests[i].params.nextPageToken
                    = requests[i - 1].response.json.nextPageToken
        /\ pc = "return" =>
              /\ "nextPageToken" \notin DOMAIN LastRequest.response.json
              /\ tasks_data = List(Concat(Len(requests)))
        /\ pc = "loop" /\ requests # <<>> =>
              "nextPageToken" \in DOMAIN LastRequest.response.json

\* C17 as stated: no request is sent twice and nothing is requested after a
\* failed request.
C17_NoRetry ==
    \A i \in 1..Len(requests) :
        /\ ~requests[i].basic
        /\ i < Len(requests) => ~Failed(requests[i])

\* C17 amended: the only retry is the basic request: a first attempt
\* answered 400 'invalid_parameter' is sent again once, for the same cursor
\* and without the optional fields; after any other failed request, and
\* after a failed basic request, nothing more is requested.
C17_OnlyInvalidParameterFallback ==
    \A i \in 1..Len(requests) :
        /\ requests[i].basic =>
              /\ i > 1
              /\ RejectedFields(requests[i - 1])
              /\ "fields" \notin DOMAIN requests[i].params
              /\ Get(requests[i].params, "nextPageToken", Nil)
                    = Get(requests[i - 1].params, "nextPageToken", Nil)
        /\ i < Len(requests) /\ Failed(requests[i]) =>
              RejectedFields(requests[i]) /\ requests[i + 1].basic

\* the first attempt was answered 400 'invalid_parameter', the basic request
\* succeeded and the call returned its record
C17_Witness ==
    /\ pc = "return"
    /\ Len(requests) = 2
    /\ RejectedFields(requests[1])
    /\ requests[2].basic
    /\ tasks_data = List(<<"t1">>)

----------------------------------------------------------------------------
(* acesso.py: the DataFrame of the fetched tasks, the responsibility       *)
(* filter and the steps after it                                           *)

\* the float nan pandas puts where a record lacks a key another record has
NaN == [k |-> "nan"]

\* a Python bool
Bool(b) == [k |-> "bool", v |-> b]

\* a cell of the DataFrame that holds the value v
Cell(v) == [k |-> "cell", v |-> v]

\* df_tasks.columns: every key of every record
Columns(tasks) == UNION {DOMAIN tasks[i] : i \in 1..Len(tasks)}

\* pd.DataFrame(tasks_data)
DataFrame(tasks) ==
    [i \in 1..Len(tasks) |->
        [c \in Columns(tasks) |->
            IF c \in DOMAIN tasks[i] THEN tasks[i][c] ELSE NaN]]

\* the ownership lists of a record or of a row, as is_user_responsible
\* reads them
OwnershipOf(r) ==
    [c \in {c \in DOMAIN r \cap {"authorIds", "responsibleIds"} : r[c].k = "list"}
        |-> r[c].v]

\* `user_id in nan`: is_user_responsible meets a nan cell, which is truthy
\* and not iterable
RowRaises(r, uid) ==
    LET nanAuthor == "authorIds" \in DOMAIN r /\ r.authorIds = NaN
        isAuthor == /\ "authorIds" \in DOMAIN r /\ r.authorIds # NaN
                    /\ InList(uid, r.authorIds.v)
        nanResponsible == "responsibleIds" \in DOMAIN r /\ r.responsibleIds = NaN
    IN nanAuthor \/ (~isAuthor /\ nanResponsible)

\* is_user_responsible(task, user_id) on a row of df_tasks
is_user_responsible_row(r, uid) ==
    IF RowRaises(r, uid) THEN Raised("TypeError")
    ELSE Bool(is_user_responsible(OwnershipOf(r), uid))

\* the working set without the fallback to the full table
working_set_no_fallback(df, kept) == kept

\* lines 272-275: the rows kept by the filter, or the full table when none
\* is kept
working_set(df, kept) == IF kept = <<>> THEN df ELSE kept

\* lines 269-275: df_tasks.apply(is_user_responsible), the selection and
\* the fallback
filter_tasks(df, uid) ==
    IF \E i \in 1..Len(df) : RowRaises(df[i], uid) THEN Raised("TypeError")
    ELSE List(working_set(df,
            SelectSeq(df, LAMBDA r : is_user_responsible_row(r, uid).v)))

\* extrair_percentual(task) on a row: a nan customFields cell is truthy and
\* not iterable
extrair_percentual_row(r) ==
    IF "customFields" \in DOMAIN r /\ r.customFields = NaN
    THEN Raised("TypeError")
    ELSE extrair_percentual_api_raw(
            [c \in {c \in DOMAIN r \cap {"customFields", "status"} : r[c] # NaN}
                |-> r[c].v])

\* the first exception of lines 278-331 on a working set, or Nil: the
\* Percentual column, df_filtrado['accountId'], get_account_info,
\* df_filtrado['title'], df_filtrado['status']
RECURSIVE FirstRaise(_, _)
FirstRaise(df, i) ==
    IF i > Len(df) THEN Nil
    ELSE IF extrair_percentual_row(df[i]).k = "raise"
         THEN extrair_percentual_row(df[i])
         ELSE FirstRaise(df, i + 1)

pipeline_error(df) ==
    IF FirstRaise(df, 1) # Nil THEN FirstRaise(df, 1)
    ELSE IF "accountId" \notin Columns(df) THEN Raised("KeyError")
    ELSE IF \E i \in 1..Len(df) : df[i].accountId = NaN THEN Raised("TypeError")
    ELSE IF df # <<>> /\ "title" \notin Columns(df) THEN Raised("KeyError")
    ELSE IF df # <<>> /\ "status" \notin Columns(df) THEN Raised("KeyError")
    ELSE Nil

\* the columns Percentual and Classificacao added to the working set
Enriched(df) ==
    [i \in 1..Len(df) |->
        LET p == extrair_percentual_row(df[i]).v
        IN ("Percentual" :> p)
             @@ ("Classificacao" :> classificar_status_api(p)) @@ df[i]]

\* the elements of the `except KeyError` branch
KeyErrorElements == {"error:token_nao_encontrado", "info:como_configurar"}

\* the elements of the `except Exception` branch
ExceptionElements == {"error:inesperado", "info:conexao"}

\* the elements of the except branch that handles an exception
HandlerElements(exc) ==
    IF exc = "KeyError" THEN KeyErrorElements ELSE ExceptionElements

\* the ownership lists of the fetched records
OwnerListSamples == {<<>>, <<"u1">>, <<"u2">>}

\* a fetched record with the fields the dashboard reads and ownership a, r
FetchedTask(n, a, r) ==
    [id |-> n, accountId |-> Str(<<"I", "E">>), title |-> Str(<<"T">>),
     status |-> Cell("Active")]
        @@ (IF a = Nil THEN <<>> ELSE ("authorIds" :> a))
        @@ (IF r = Nil THEN <<>> ELSE ("responsibleIds" :> r))

\* the script after get_user_id returned an id, before any record arrived
InitFilter ==
    /\ user_id \in Users
    /\ tasks_data = List(<<>>)
    /\ df_tasks = Nil /\ df_filtrado = Nil /\ screen = {} /\ pc = "fetch"
    /\ task = Nil /\ percentual = Nil /\ responsavel = Nil /\ row = Nil
    /\ classificacao = Nil /\ percentuais = <<>> /\ metrics = Nil
    /\ secrets = Nil /\ token = Nil /\ cache_user = Nil /\ cache_tasks = Nil
    /\ first_call = Nil /\ calls = Nil
    /\ all_tasks = Nil /\ next_page_token = Nil /\ requests = Nil
    /\ df_para_dashboard = Nil /\ cliente_metrics = Nil

\* one more record in the list get_wrike_tasks returns
FetchTask ==
    /\ pc = "fetch"
    /\ Len(tasks_data.v) < MaxTasks
    /\ \E a, r \in {Nil} \cup {List(l) : l \in OwnerListSamples} :
          tasks_data' =
              List(Append(tasks_data.v, FetchedTask(Len(tasks_data.v) + 1, a, r)))
    /\ UNCHANGED <<df_tasks, df_filtrado>>
    /\ UNCHANGED <<task, user_id, percentual, responsavel, row, classificacao,
                   percentuais, metrics, pc, secrets, token, cache_user,
                   cache_tasks, first_call, calls, screen, all_tasks,
                   next_page_token, requests, df_para_dashboard,
                   cliente_metrics>>

\* lines 253-275: the notice of an empty result, or the DataFrame, the
\* filter and its fallback
FilterTasks ==
    /\ pc = "fetch"
    /\ IF tasks_data.v = <<>>
       THEN /\ screen' = screen \cup {"warning:nenhuma_tarefa", "info:permissoes"}
            /\ pc' = "end"
            /\ UNCHANGED <<df_tasks, df_filtrado>>
       ELSE LET df == DataFrame(tasks_data.v)
                kept == filter_tasks(df, user_id)
            IN /\ df_tasks' = df
               /\ IF kept.k = "raise"
                  THEN /\ screen' = screen \cup {"debug"} \cup HandlerElements(kept.exc)
                       /\ pc' = "end"
                       /\ UNCHANGED df_filtrado
                  ELSE /\ df_filtrado' = kept.v
                       /\ screen' = screen \cup {"debug"} \cup
                            (IF \A i \in 1..Len(df) :
                                    ~is_user_responsible_row(df[i], user_id).v
                             THEN {"warning:nenhuma_tarefa_usuario", "info:todas"}
                             ELSE {})
                       /\ pc' = "filtered"
    /\ UNCHANGED <<task, user_id, percentual, responsavel, row, classificacao,
                   percentuais, metrics, secrets, token, cache_user,
                   cache_tasks, first_call, calls, tasks_data, all_tasks,
                   next_page_token, requests, df_para_dashboard,
                   cliente_metrics>>

\* lines 278-538: the added columns, then the dashboard or the notice of an
\* empty working set; an exception ends in its except branch
EnrichAndRender ==
    /\ pc = "filtered"
    /\ LET err == pipeline_error(df_filtrado)
       IN IF err # Nil
          THEN /\ screen' = screen \cup HandlerElements(err.exc)
               /\ UNCHANGED df_filtrado
          ELSE /\ df_filtrado' = Enriched(df_filtrado)
               /\ screen' = screen \cup
                    (IF df_filtrado # <<>> THEN {"dashboard"}
                     ELSE {"info:nenhuma_tarefa_filtro"})
    /\ pc' = "end"
    /\ UNCHANGED <<task, user_id, percentual, responsavel, row, classificacao,
                   percentuais, metrics, secrets, token, cache_user,
                   cache_tasks, first_call, calls, tasks_data, all_tasks,
                   next_page_token, requests, df_para_dashboard,
                   cliente_metrics, df_tasks>>

NextFilter == FetchTask \/ FilterTasks \/ EnrichAndRender

SpecFilter == InitFilter /\ [][NextFilter]_vars

\* the ids of the rows of a table, in order
Ids(df) == [i \in 1..Len(df) |-> df[i].id]

\* C21: once the filter has run, the working set holds the fetched tasks
\* for which is_user_responsible is true when there is one, and otherwise
\* every fetched task; it is not empty, and the notice of an empty working
\* set is never rendered.
C21_WorkingSetNeverEmpty ==
    /\ pc = "filtered" \/ (pc = "end" /\ "dashboard" \in screen) =>
          LET fetched == tasks_data.v
              responsible ==
                  SelectSeq(fetched,
                      LAMBDA t : is_user_responsible(OwnershipOf(t), user_id))
          IN /\ fetched # <<>>
             /\ Ids(df_filtrado) =
                    Ids(IF responsible # <<>> THEN responsible ELSE fetched)
             /\ df_filtrado # <<>>
    /\ "info:nenhuma_tarefa_filtro" \notin screen

\* no fetched task was the user's, the two of them were kept and the
\* dashboard was rendered
C21_Witness ==
    /\ pc = "end"
    /\ "dashboard" \in screen
    /\ "warning:nenhuma_tarefa_usuario" \in screen
    /\ Len(tasks_data.v) = 2
    /\ Ids(df_filtrado) = <<1, 2>>

----------------------------------------------------------------------------
(* acesso.py: the main script, run after run, with the st.cache_data caches *)

\* st.secrets without a secrets.toml: the lookup raises an error that is not
\* a KeyError
NoFile == [k |-> "FileNotFoundError"]

\* the two credentials
Tokens == {Str(<<"k">>), Str(<<"m">>)}

\* the configurations: no file, a file without the key, an empty token, a
\* token
SecretsStates ==
    {NoFile, <<>>}
        \cup {"wrike_access_token" :> t : t \in {Str(<<>>)} \cup Tokens}

\* what a cached function did: the value it returned (or the exception it
\* raised) and the elements it rendered
Outcome(value, elements) == [value |-> value, elements |-> elements]

\* get_user_id run against the contacts endpoint: the id of the first
\* record; None when the request fails or the body has no record; KeyError
\* when the first record has no 'id'
UserOutcomes ==
    {Outcome(Str(<<"u">>), {"info:conectado"}),
     Outcome(None, {"error:get_user_id"}),
     Outcome(Raised("KeyError"), {"info:conectado"})}

\* the record t without one of its keys
Without(t, key) == [c \in DOMAIN t \ {key} |-> t[c]]

\* the lists the tasks endpoint can hold: one record with the fields the
\* dashboard reads, or one record that lacks accountId, title or status
TaskListSamples ==
    {<<FetchedTask(1, Nil, Nil)>>}
        \cup {<<Without(FetchedTask(1, Nil, Nil), key)>> :
                    key \in {"accountId", "title", "status"}}

\* get_wrike_tasks run against the tasks endpoint: what SpecFetch returns
TasksOutcomes ==
    {Outcome(List(<<>>), {"error:get_wrike_tasks"}),
     Outcome(List(<<>>), {"success"})}
        \cup {Outcome(List(l), {"success"}) : l \in TaskListSamples}

\* every token passes the check of line 238
token_ok_any(t) == TRUE

\* `if not token` of line 238, negated
token_ok(t) == Truthy(t)

\* the key of a call in first_call
CallKey(fn, t) == <<fn, t>>

\* the call record of fn(t) that came back with out
Call(fn, t, hit, out) ==
    [fn |-> fn, token |-> t,
     repeat |-> CallKey(fn, t) \in DOMAIN first_call,
     requested |-> ~hit, result |-> out.value]

\* first_call after fn(t) came back with out
Remember(fn, t, out) ==
    IF CallKey(fn, t) \in DOMAIN first_call THEN first_call
    ELSE (CallKey(fn, t) :> out.value) @@ first_call

\* st.cache_data: the entry of t after the function came back with out;
\* nothing is stored when the function raised
Store(cache, t, out) ==
    IF t \in DOMAIN cache \/ out.value.k = "raise" THEN cache
    ELSE (t :> out) @@ cache

\* the first run of the script in a fresh process
InitApp ==
    /\ secrets \in SecretsStates
    /\ token = Nil /\ user_id = Nil /\ tasks_data = Nil
    /\ cache_user = <<>> /\ cache_tasks = <<>> /\ first_call = <<>>
    /\ calls = <<>> /\ screen = {} /\ pc = "start"
    /\ all_tasks = Nil /\ next_page_token = Nil /\ requests = Nil
    /\ task = Nil /\ percentual = Nil /\ responsavel = Nil /\ row = Nil
    /\ classificacao = Nil /\ percentuais = <<>> /\ metrics = Nil
    /\ df_para_dashboard = Nil /\ cliente_metrics = Nil
    /\ df_tasks = Nil /\ df_filtrado = Nil

\* lines 237-241, and the except branches for a failed lookup
ReadToken ==
    /\ pc = "start"
    /\ IF secrets = NoFile
       THEN /\ screen' = screen \cup ExceptionElements
            /\ pc' = "end" /\ UNCHANGED token
       ELSE IF "wrike_access_token" \notin DOMAIN secrets
       THEN /\ screen' = screen \cup KeyErrorElements
            /\ pc' = "end" /\ UNCHANGED token
       ELSE /\ token' = secrets.wrike_access_token
            /\ IF token_ok(secrets.wrike_access_token)
               THEN pc' = "user" /\ UNCHANGED screen
               ELSE /\ screen' = screen \cup {"error:token", "info:secrets"}
                    /\ pc' = "end"
    /\ UNCHANGED <<df_tasks, df_filtrado>>
    /\ UNCHANGED <<task, user_id, percentual, responsavel, row, classificacao,
                   percentuais, metrics, secrets, cache_user, cache_tasks,
                   first_call, calls, tasks_data, all_tasks, next_page_token,
                   requests, df_para_dashboard, cliente_metrics>>

\* lines 244-247: get_user_id(token) through its cache, then the check
GetUserId ==
    /\ pc = "user"
    /\ LET hit == token \in DOMAIN cache_user
       IN \E out \in IF hit THEN {cache_user[token]} ELSE UserOutcomes :
            /\ calls' = Append(calls, Call("get_user_id", token, hit, out))
            /\ first_call' = Remember("get_user_id", token, out)
            /\ cache_user' = Store(cache_user, token, out)
            /\ IF out.value.k = "raise"
               THEN /\ screen' = screen \cup out.elements \cup KeyErrorElements
                    /\ pc' = "end" /\ UNCHANGED user_id
               ELSE /\ user_id' = out.value
                    /\ IF Truthy(out.value)
                       THEN pc' = "tasks" /\ screen' = screen \cup out.elements
                       ELSE /\ screen' = screen \cup out.elements
                                            \cup {"error:user_id"}
                            /\ pc' = "end"
    /\ UNCHANGED <<df_tasks, df_filtrado>>
    /\ UNCHANGED <<task, percentual, responsavel, row, classificacao,
                   percentuais, metrics, secrets, token, cache_tasks,
                   tasks_data, all_tasks, next_page_token, requests,
                   df_para_dashboard, cliente_metrics>>

\* lines 250-251: get_wrike_tasks(token) through its cache
GetWrikeTasks ==
    /\ pc = "tasks"
    /\ LET hit == token \in DOMAIN cache_tasks
       IN \E out \in IF hit THEN {cache_tasks[token]} ELSE TasksOutcomes :
            /\ calls' = Append(calls, Call("get_wrike_tasks", token, hit, out))
            /\ first_call' = Remember("get_wrike_tasks", token, out)
            /\ cache_tasks' = Store(cache_tasks, token, out)
            /\ tasks_data' = out.value
            /\ screen' = screen \cup out.elements
    /\ pc' = "fetch"
    /\ UNCHANGED <<df_tasks, df_filtrado>>
    /\ UNCHANGED <<task, user_id, percentual, responsavel, row, classificacao,
                   percentuais, metrics, secrets, token, cache_user,
                   all_tasks, next_page_token, requests, df_para_dashboard,
                   cliente_metrics>>

\* the script runs again from the top (an interaction, a reload, an edited
\* secrets.toml); the caches of the process stay
Rerun ==
    /\ pc = "end"
    /\ secrets' \in SecretsStates
    /\ token' = Nil /\ user_id' = Nil /\ tasks_data' = Nil
    /\ calls' = <<>> /\ screen' = {} /\ pc' = "start"
    /\ df_tasks' = Nil /\ df_filtrado' = Nil
    /\ UNCHANGED <<task, percentual, responsavel, row, classificacao,
                   percentuais, metrics, cache_user, cache_tasks, first_call,
                   all_tasks, next_page_token, requests, df_para_dashboard,
                   cliente_metrics>>

NextApp ==
    \/ ReadToken \/ GetUserId \/ GetWrikeTasks
    \/ FilterTasks \/ EnrichAndRender \/ Rerun

SpecApp == InitApp /\ [][NextApp]_vars

----------------------------------------------------------------------------
(* Claims about the script run and its caches *)

\* the token is absent from the configuration or empty
BadConfig ==
    \/ secrets = NoFile
    \/ "wrike_access_token" \notin DOMAIN secrets
    \/ secrets.wrike_access_token.s = <<>>

\* the error elements and the guidance elements of the script
ErrorElements == {"error:token", "error:token_nao_encontrado", "error:inesperado"}

InfoElements == {"info:secrets", "info:como_configurar", "info:conexao"}

\* C14: with the token absent or empty the run shows an error and a
\* guidance and halts, having called neither get_user_id nor
\* get_wrike_tasks and rendered no dashboard; and get_wrike_tasks is called
\* only after get_user_id returned the user's id.
C14_ConfigErrorHalts ==
    /\ pc # "start" /\ BadConfig =>
          /\ pc = "end"
          /\ calls = <<>>
          /\ "dashboard" \notin screen /\ "debug" \notin screen
          /\ screen \cap ErrorElements # {}
          /\ screen \cap InfoElements # {}
    /\ pc \in {"start", "user", "tasks", "fetch", "filtered", "end"} =>
          \A i \in 1..Len(calls) :
              calls[i].fn = "get_wrike_tasks" =>
                  /\ i = 2
                  /\ calls[1].fn = "get_user_id"
                  /\ calls[1].result.k = "str" /\ calls[1].result.s # <<>>
                  /\ user_id = calls[1].result

\* a run with an empty token ended on the error and the guidance
C14_Witness ==
    /\ pc = "end"
    /\ secrets = ("wrike_access_token" :> Str(<<>>))
    /\ screen = {"error:token", "info:secrets"}
    /\ calls = <<>>

\* C18: a call of get_wrike_tasks or get_user_id with a token the function
\* was called with before sends no request and returns what the first call
\* with that token returned.
C18_MemoizedPerCredential ==
    pc \in {"start", "user", "tasks", "fetch", "filtered", "end"} =>
        \A i \in 1..Len(calls) :
            calls[i].repeat =>
                /\ ~calls[i].requested
                /\ calls[i].result = first_call[CallKey(calls[i].fn, calls[i].token)]

----------------------------------------------------------------------------
(* acesso.py: the displayed label of a client and the chart per client *)

\* characters of an account id kept in the label: account_id[-8:]
SuffixLen == 8

\* s[-8:]
Last8(s) ==
    IF Len(s) <= SuffixLen THEN s ELSE SubSeq(s, Len(s) - SuffixLen + 1, Len(s))

\* the text "Cliente "
ClientePrefix == <<"C", "l", "i", "e", "n", "t", "e", " ">>

\* list(set(filter(None, account_ids)))
UniqueAccountIds(ids) == {ids[i] : i \in 1..Len(ids)} \ {<<>>}

\* get_account_info(token, account_ids): the name of every account id
get_account_info(ids) ==
    [a \in UniqueAccountIds(ids) |-> ClientePrefix \o Last8(a)]

\* format_client_display(account_id, account_info)
format_client_display(a, account_info) ==
    IF a \in DOMAIN account_info
    THEN account_info[a] \o <<" ", "(">> \o Last8(a) \o <<")">>
    ELSE ClientePrefix \o (IF a # <<>> THEN Last8(a) ELSE <<"N", "/", "A">>)

\* the column Cliente_Display of a table
ClienteDisplay(df) ==
    LET account_info == get_account_info([i \in 1..Len(df) |-> df[i].accountId])
    IN [i \in 1..Len(df) |-> format_client_display(df[i].accountId, account_info)]

\* num/den rounded to an integer, halves to the even neighbour
RoundHalfEven(num, den) ==
    LET q == num \div den
        r == num % den
    IN IF 2 * r < den THEN q
       ELSE IF 2 * r > den THEN q + 1
       ELSE IF q % 2 = 0 THEN q ELSE q + 1

\* the sum of the Percentual of the rows in a set
RECURSIVE SumRows(_, _)
SumRows(df, rows) ==
    IF rows = {} THEN 0
    ELSE LET i == CHOOSE i \in rows : TRUE
         IN df[i].Percentual + SumRows(df, rows \ {i})

\* mean().round(1) of the rows in a set, in tenths
MeanTenths(df, rows) ==
    RoundHalfEven(SumRows(df, rows) * 10, Cardinality(rows) * Scale)

\* df.groupby('Cliente_Display').agg(mean, count).round(1)
GroupByClienteDisplay(df) ==
    LET display == ClienteDisplay(df)
        group(g) == {i \in 1..Len(df) : display[i] = g}
    IN [g \in {display[i] : i \in 1..Len(df)} |->
          [Progresso_Medio |-> MeanTenths(df, group(g)),
           Total_Tasks |-> Cardinality(group(g))]]

\* account ids: two of eight characters, one of nine that ends like the
\* first, and a short one
AccountIdSamples ==
    {<<"I", "E", "A", "A", "A", "A", "A", "Q">>,
     <<"I", "E", "A", "A", "A", "A", "B", "Q">>,
     <<"X", "I", "E", "A", "A", "A", "A", "A", "Q">>,
     <<"I", "E">>}

\* the table before any task is shown
InitClientes ==
    /\ df_para_dashboard = <<>> /\ cliente_metrics = Nil /\ pc = "table"
    /\ task = Nil /\ user_id = Nil /\ percentual = Nil /\ responsavel = Nil
    /\ row = Nil /\ classificacao = Nil /\ percentuais = <<>> /\ metrics = Nil
    /\ secrets = Nil /\ token = Nil /\ cache_user = Nil /\ cache_tasks = Nil
    /\ first_call = Nil /\ calls = Nil /\ screen = Nil /\ tasks_data = Nil
    /\ all_tasks = Nil /\ next_page_token = Nil /\ requests = Nil
    /\ df_tasks = Nil /\ df_filtrado = Nil

\* one more task of df_para_dashboard
AddTask ==
    /\ pc = "table"
    /\ Len(df_para_dashboard) < MaxTasks
    /\ \E a \in AccountIdSamples, p \in ApiPercentSamples :
          df_para_dashboard' =
              Append(df_para_dashboard, [accountId |-> a, Percentual |-> p])
    /\ UNCHANGED <<df_tasks, df_filtrado>>
    /\ UNCHANGED <<secrets, token, cache_user, cache_tasks, first_call, calls,
                   screen, tasks_data, all_tasks, next_page_token, requests>>
    /\ UNCHANGED <<task, user_id, percentual, responsavel, row, classificacao,
                   percentuais, metrics, pc, cliente_metrics>>

\* lines 451-463 with 'Todos os Clientes' selected: the chart is computed
\* when the table shows more than one client label
ClienteMetrics ==
    /\ pc = "table"
    /\ LET display == ClienteDisplay(df_para_dashboard)
       IN cliente_metrics' =
            IF Cardinality({display[i] : i \in 1..Len(display)}) > 1
            THEN GroupByClienteDisplay(df_para_dashboard)
            ELSE None
    /\ pc' = "chart"
    /\ UNCHANGED <<df_tasks, df_filtrado>>
    /\ UNCHANGED <<secrets, token, cache_user, cache_tasks, first_call, calls,
                   screen, tasks_data, all_tasks, next_page_token, requests>>
    /\ UNCHANGED <<task, user_id, percentual, responsavel, row, classificacao,
                   percentuais, metrics, df_para_dashboard>>

NextClientes == AddTask \/ ClienteMetrics

SpecClientes == InitClientes /\ [][NextClientes]_vars

\* the rows of the displayed table with account id a
RowsOf(a) ==
    {i \in 1..Len(df_para_dashboard) : df_para_dashboard[i].accountId = a}

\* C15: the chart per client is keyed by the account id: every account id
\* of the displayed tasks has its own group, whose count is the number of
\* displayed tasks with that account id and whose mean is the mean percent
\* of exactly those tasks, and there are no other groups.
C15_GroupsKeyedByAccountId ==
    pc = "chart" /\ cliente_metrics # None =>
        LET ids == {df_para_dashboard[i].accountId : i \in 1..Len(df_para_dashboard)}
        IN /\ Cardinality(DOMAIN cliente_metrics) = Cardinality(ids)
           /\ \A a \in ids : \E g \in DOMAIN cliente_metrics :
                 /\ cliente_metrics[g].Total_Tasks = Cardinality(RowsOf(a))
                 /\ cliente_metrics[g].Progresso_Medio
                        = MeanTenths(df_para_dashboard, RowsOf(a))

----------------------------------------------------------------------------
(* Claim about the message of the except KeyError branch *)

\* C22: the 'access token not found' message of the except KeyError branch
\* is on the screen only in a run whose configuration lacks the
\* wrike_access_token key; no failure after the token was read produces it.
C22_TokenMessageOnlyForMissingKey ==
    "error:token_nao_encontrado" \in screen =>
        /\ secrets # NoFile
        /\ "wrike_access_token" \notin DOMAIN secrets
        /\ token = Nil

====
